---- MODULE Spec2Model ----
(***************************************************************************)
(* Model of the x402 merchant gateway of x402-experiment/server.js: the    *)
(* POST /v1/chat handler, the payment header codec it shares with the      *)
(* buyer client, and the facilitator / provider calls it awaits.           *)
(***************************************************************************)
EXTENDS Naturals, Sequences, FiniteSets, TLC

(***************************************************************************)
(* Bounds of the model.                                                    *)
(***************************************************************************)
\* Number of POST /v1/chat requests the gateway handles in one behaviour.
MaxReqs == 2

Reqs == 1..MaxReqs

(***************************************************************************)
(* JavaScript values.  A value is a pair <<tag, content>>; an object's     *)
(* content is the sequence of its <<key, value>> entries in insertion      *)
(* order.                                                                  *)
(***************************************************************************)
Undefined == <<"undef", "">>
Null == <<"null", "">>
Str(s) == <<"str", s>>
Num(s) == <<"num", s>>
Bool(b) == <<"bool", IF b THEN "true" ELSE "false">>
Obj(entries) == <<"obj", entries>>
\* An array, its content the sequence of its elements.
Arr(elems) == <<"arr", elems>>
\* A string of base64 characters (see Base64Encode), as a header carries it.
Chars(cs) == <<"chars", cs>>

IsObj(v) == v[1] = "obj"

\* v.key: the value of the last entry named key, undefined if there is none.
RECURSIVE GetFrom(_, _, _)
GetFrom(entries, key, i) ==
    IF i = 0 THEN Undefined
    ELSE IF entries[i][1] = key THEN entries[i][2]
    ELSE GetFrom(entries, key, i - 1)

Get(v, key) == IF IsObj(v) THEN GetFrom(v[2], key, Len(v[2])) ELSE Undefined

\* JavaScript truthiness of a value.
Truthy(v) ==
    CASE v[1] = "undef" -> FALSE
      [] v[1] = "null" -> FALSE
      [] v[1] = "bool" -> v[2] = "true"
      [] v[1] = "str" -> v[2] # ""
      [] v[1] = "num" -> v[2] # "0"
      [] v[1] = "chars" -> Len(v[2]) > 0
      [] OTHER -> TRUE

(***************************************************************************)
(* JSON text.  A text is a sequence of bytes; each byte stands for one     *)
(* lexical token of the text, its value being the token's place in         *)
(* Alphabet.                                                               *)
(***************************************************************************)
Alphabet ==
    << [k |-> "punct", v |-> "{"],
       [k |-> "punct", v |-> "}"],
       [k |-> "punct", v |-> ":"],
       [k |-> "punct", v |-> ","],
       [k |-> "num", v |-> "1"],
       [k |-> "bool", v |-> "true"],
       [k |-> "bool", v |-> "false"],
       [k |-> "null", v |-> ""],
       [k |-> "str", v |-> ""],
       [k |-> "str", v |-> "x402Version"],
       [k |-> "str", v |-> "scheme"],
       [k |-> "str", v |-> "network"],
       [k |-> "str", v |-> "payload"],
       [k |-> "str", v |-> "transaction"],
       [k |-> "str", v |-> "exact"],
       [k |-> "str", v |-> "upto"],
       [k |-> "str", v |-> "solana-devnet"],
       [k |-> "str", v |-> "solana"],
       [k |-> "str", v |-> "txA"],
       [k |-> "str", v |-> "txB"],
       [k |-> "str", v |-> "success"],
       [k |-> "str", v |-> "payer"],
       [k |-> "str", v |-> "payerA"],
       [k |-> "str", v |-> "sigA"],
       [k |-> "str", v |-> "tx:transfer:10000"],
       [k |-> "str", v |-> "tx:create+transfer:10000"],
       [k |-> "str", v |-> "tx:transfer:20000"],
       [k |-> "str", v |-> "tx:create+transfer:20000"],
       [k |-> "junk", v |-> "?"] >>

ByteOf(tok) == CHOOSE i \in 1..Len(Alphabet) : Alphabet[i] = tok
TokenOf(byte) ==
    IF byte \in 1..Len(Alphabet) THEN Alphabet[byte] ELSE [k |-> "junk", v |-> "?"]

Punct(c) == ByteOf([k |-> "punct", v |-> c])

\* JSON.stringify of a value that is not undefined: an entry whose value is
\* undefined is left out of its object.
RECURSIVE JSONStringify(_), StringifyEntries(_, _, _)
JSONStringify(v) ==
    IF IsObj(v)
    THEN <<Punct("{")>> \o StringifyEntries(v[2], 1, TRUE) \o <<Punct("}")>>
    ELSE <<ByteOf([k |-> v[1], v |-> v[2]])>>

StringifyEntries(entries, i, first) ==
    IF i > Len(entries) THEN <<>>
    ELSE IF entries[i][2] = Undefined THEN StringifyEntries(entries, i + 1, first)
    ELSE (IF first THEN <<>> ELSE <<Punct(",")>>)
         \o <<ByteOf([k |-> "str", v |-> entries[i][1]]), Punct(":")>>
         \o JSONStringify(entries[i][2])
         \o StringifyEntries(entries, i + 1, FALSE)

\* Setting a key of an object: an existing key keeps its place.
SetEntry(entries, key, val) ==
    IF \E i \in 1..Len(entries) : entries[i][1] = key
    THEN [i \in 1..Len(entries) |->
            IF entries[i][1] = key THEN <<key, val>> ELSE entries[i]]
    ELSE Append(entries, <<key, val>>)

ParseFail == [ok |-> FALSE, val |-> Undefined, rest |-> <<>>]

\* JSON.parse by recursive descent: ParseValue reads one value from the head
\* of the text, ParseMembers the members of an object after its "{".
RECURSIVE ParseValue(_), ParseMembers(_, _)
ParseValue(text) ==
    IF Len(text) = 0 THEN ParseFail
    ELSE LET tok == TokenOf(Head(text)) IN
         CASE tok.k \in {"str", "num", "bool", "null"} ->
                [ok |-> TRUE, val |-> <<tok.k, tok.v>>, rest |-> Tail(text)]
           [] tok = [k |-> "punct", v |-> "{"] ->
                IF Len(text) >= 2 /\ TokenOf(text[2]) = [k |-> "punct", v |-> "}"]
                THEN [ok |-> TRUE, val |-> Obj(<<>>), rest |-> Tail(Tail(text))]
                ELSE ParseMembers(Tail(text), <<>>)
           [] OTHER -> ParseFail

ParseMembers(text, acc) ==
    IF Len(text) < 2 THEN ParseFail
    ELSE LET key == TokenOf(text[1])
             colon == TokenOf(text[2])
         IN  IF key.k # "str" \/ colon # [k |-> "punct", v |-> ":"] THEN ParseFail
             ELSE LET r == ParseValue(SubSeq(text, 3, Len(text))) IN
                  IF ~r.ok \/ Len(r.rest) = 0 THEN ParseFail
                  ELSE LET next == TokenOf(Head(r.rest))
                           acc2 == SetEntry(acc, key.v, r.val)
                       IN  CASE next = [k |-> "punct", v |-> "}"] ->
                                  [ok |-> TRUE, val |-> Obj(acc2), rest |-> Tail(r.rest)]
                             [] next = [k |-> "punct", v |-> ","] ->
                                  ParseMembers(Tail(r.rest), acc2)
                             [] OTHER -> ParseFail

\* JSON.parse(text): throws (ok = FALSE) unless the whole text is one value.
ParseFailed == [ok |-> FALSE, val |-> Undefined]

JSONParse(text) ==
    LET r == ParseValue(text) IN
    IF r.ok /\ Len(r.rest) = 0 THEN [ok |-> TRUE, val |-> r.val]
    ELSE ParseFailed

(***************************************************************************)
(* base64.  A character of a base64 string is its sextet 0..63, PadChar    *)
(* for "=", or BadChar for a character outside the base64 alphabet.        *)
(***************************************************************************)
PadChar == 64
BadChar == 65

\* Buffer.from(bytes).toString('base64')
RECURSIVE Base64Encode(_)
Base64Encode(bytes) ==
    CASE Len(bytes) = 0 -> <<>>
      [] Len(bytes) = 1 ->
            <<bytes[1] \div 4, (bytes[1] % 4) * 16, PadChar, PadChar>>
      [] Len(bytes) = 2 ->
            <<bytes[1] \div 4, (bytes[1] % 4) * 16 + bytes[2] \div 16,
              (bytes[2] % 16) * 4, PadChar>>
      [] OTHER ->
            <<bytes[1] \div 4, (bytes[1] % 4) * 16 + bytes[2] \div 16,
              (bytes[2] % 16) * 4 + bytes[3] \div 64, bytes[3] % 64>>
            \o Base64Encode(SubSeq(bytes, 4, Len(bytes)))

\* The sextets the decoder reads: characters outside the alphabet are
\* skipped and the first "=" ends the input.
RECURSIVE Sextets(_)
Sextets(chars) ==
    IF Len(chars) = 0 \/ Head(chars) = PadChar THEN <<>>
    ELSE IF Head(chars) < PadChar THEN <<Head(chars)>> \o Sextets(Tail(chars))
    ELSE Sextets(Tail(chars))

RECURSIVE DecodeGroups(_)
DecodeGroups(s) ==
    CASE Len(s) <= 1 -> <<>>
      [] Len(s) = 2 -> <<s[1] * 4 + s[2] \div 16>>
      [] Len(s) = 3 -> <<s[1] * 4 + s[2] \div 16, (s[2] % 16) * 16 + s[3] \div 4>>
      [] OTHER ->
            <<s[1] * 4 + s[2] \div 16, (s[2] % 16) * 16 + s[3] \div 4,
              (s[3] % 4) * 64 + s[4]>>
            \o DecodeGroups(SubSeq(s, 5, Len(s)))

Base64DecodeAsText(chars) == chars

\* Buffer.from(chars, 'base64').toString(): never throws.
Base64Decode(chars) == DecodeGroups(Sextets(chars))


(***************************************************************************)
(* Configuration of the merchant server.                                   *)
(***************************************************************************)
NETWORK == "solana-devnet"
FACILITATOR_URL == "https://facilitator.payai.network"
TREASURY_ADDRESS == "4acbTnyJu4yxZa861xPh1nQdawoMsaRnecqU5varwpQ5"
BASE_URL == "http://localhost:3402"
USDC_DEVNET == "4zMMC9srt5Ri5X14GAgXhaHii3GnPAEERYPJgZJDncDU"
USDC_MAINNET == "EPjFWdd5AufqSSqeM2qN1xzybapC8G4wEGGkZwyTDt1v"
USDC_ADDRESS == IF NETWORK = "solana-devnet" THEN USDC_DEVNET ELSE USDC_MAINNET
PRICE_ATOMIC == "10000"
\* const resourceUrl = `${BASE_URL}/v1/chat`
ResourceUrl == "http://localhost:3402/v1/chat"

(***************************************************************************)
(* The manual x402 implementation.                                         *)
(***************************************************************************)
manualCreate402Response(resourceUrl) ==
    [status |-> 402,
     body |-> Obj(<< <<"x402Version", Num("1")>>,
                     <<"error", Str("X-PAYMENT header is required")>>,
                     <<"accepts", Arr(<< Obj(<<
                         <<"scheme", Str("exact")>>,
                         <<"network", Str(NETWORK)>>,
                         <<"maxAmountRequired", Str(PRICE_ATOMIC)>>,
                         <<"asset", Str(USDC_ADDRESS)>>,
                         <<"payTo", Str(TREASURY_ADDRESS)>>,
                         <<"resource", Str(resourceUrl)>>,
                         <<"description", Str("Claude AI chat request")>>,
                         <<"mimeType", Str("application/json")>>,
                         <<"outputSchema", Null>>,
                         <<"maxTimeoutSeconds", Num("300")>>,
                         <<"extra", Obj(<<>>)>> >>) >>)>> >>)]

\* The decoding both manualVerifyPayment and manualSettlePayment start with:
\* JSON.parse(Buffer.from(paymentHeader, 'base64').toString()).
DecodePaymentHeader(paymentHeader) == JSONParse(Base64Decode(paymentHeader[2]))

(***************************************************************************)
(* The x402-solana SDK handler, used when its import succeeded.  The SDK   *)
(* is not part of the repository: its calls are modelled by the arguments  *)
(* the gateway passes and by the interface the gateway relies on.          *)
(***************************************************************************)
X402CreatePaymentRequirements(amount, assetAddress, resourceUrl) ==
    Obj(<< <<"scheme", Str("exact")>>,
           <<"network", Str(NETWORK)>>,
           <<"maxAmountRequired", Str(amount)>>,
           <<"asset", Str(assetAddress)>>,
           <<"payTo", Str(TREASURY_ADDRESS)>>,
           <<"resource", Str(resourceUrl)>>,
           <<"description", Str("Claude AI chat request")>> >>)

X402Create402Response(paymentRequirements, resourceUrl) ==
    [status |-> 402,
     body |-> Obj(<< <<"x402Version", Num("1")>>,
                     <<"accepts", Arr(<<paymentRequirements>>)>> >>)]

(***************************************************************************)
(* What goes over the wire for res.json(value): JSON.stringify drops the   *)
(* entries of an object whose value is undefined and writes an undefined   *)
(* array element as null.                                                  *)
(***************************************************************************)
RECURSIVE ResJson(_), ResJsonEntries(_, _), ResJsonElems(_, _)
ResJson(v) ==
    CASE v[1] = "obj" -> Obj(ResJsonEntries(v[2], 1))
      [] v[1] = "arr" -> Arr(ResJsonElems(v[2], 1))
      [] OTHER -> v

ResJsonEntries(entries, i) ==
    IF i > Len(entries) THEN <<>>
    ELSE IF entries[i][2] = Undefined THEN ResJsonEntries(entries, i + 1)
    ELSE << <<entries[i][1], ResJson(entries[i][2])>> >>
         \o ResJsonEntries(entries, i + 1)

ResJsonElems(elems, i) ==
    IF i > Len(elems) THEN <<>>
    ELSE << IF elems[i] = Undefined THEN Null ELSE ResJson(elems[i]) >>
         \o ResJsonElems(elems, i + 1)

(***************************************************************************)
(* Requests the model sends to POST /v1/chat.                              *)
(***************************************************************************)
PaymentPayload(scheme, network, transaction) ==
    Obj(<< <<"x402Version", Num("1")>>,
           <<"scheme", Str(scheme)>>,
           <<"network", Str(network)>>,
           <<"payload", Obj(<< <<"transaction", Str(transaction)>> >>)>> >>)

\* The header the buyer client builds for a payload.
XPaymentHeader(paymentPayload) == Chars(Base64Encode(JSONStringify(paymentPayload)))

HeaderTxA == XPaymentHeader(PaymentPayload("exact", NETWORK, "txA"))
HeaderTxB == XPaymentHeader(PaymentPayload("exact", NETWORK, "txB"))
\* A payload of another scheme and another network than the requirements.
HeaderMismatch == XPaymentHeader(PaymentPayload("upto", "solana", "txA"))
\* base64 of a text that is no JSON: an object cut off after its first key.
HeaderNotJson == Chars(Base64Encode(<<Punct("{"), ByteOf([k |-> "str", v |-> "scheme"])>>))
\* A string that is no well-formed base64.
HeaderNotBase64 == Chars(<<BadChar, 1, BadChar>>)
\* base64 of the JSON text {}: parseable, with none of the payload's fields.
HeaderNoFields == XPaymentHeader(Obj(<<>>))
HeaderEmpty == Chars(<<>>)

\* The headers of a request: x-payment and payment-signature, each absent
\* (undefined) or a string.
WellFormedRequests ==
    { [xPayment |-> Undefined, paymentSignature |-> Undefined],
      [xPayment |-> HeaderEmpty, paymentSignature |-> Undefined],
      [xPayment |-> HeaderTxA, paymentSignature |-> Undefined],
      [xPayment |-> HeaderEmpty, paymentSignature |-> HeaderTxB],
      [xPayment |-> HeaderMismatch, paymentSignature |-> Undefined] }

MalformedRequests ==
    { [xPayment |-> HeaderNotJson, paymentSignature |-> Undefined],
      [xPayment |-> HeaderNotBase64, paymentSignature |-> Undefined],
      [xPayment |-> HeaderNoFields, paymentSignature |-> Undefined] }

(***************************************************************************)
(* Outcomes of the calls the handler awaits: a value, or an error thrown.  *)
(***************************************************************************)
Returns(v) == [kind |-> "returns", val |-> v, message |-> ""]
Throws(m) == [kind |-> "throws", val |-> Undefined, message |-> m]

\* The awaited facilitator call rejects: fetch fails (facilitator
\* unreachable) or resp.json() fails (the reply is no JSON).
TransportErrors == { Throws("fetch failed") }

VerifyOutcomes ==
    { Returns(Obj(<< <<"isValid", Bool(TRUE)>>, <<"payer", Str("payerA")>> >>)),
      Returns(Obj(<< <<"isValid", Bool(FALSE)>>,
                     <<"invalidReason", Str("invalid_signature")>> >>)),
      Returns(Null) } \cup TransportErrors

ProviderMessage ==
    Obj(<< <<"content", Arr(<< Obj(<< <<"type", Str("text")>>,
                                      <<"text", Str("Hello from Claude")>> >>) >>)>>,
           <<"model", Str("claude-sonnet-4-20250514")>>,
           <<"usage", Obj(<< <<"input_tokens", Num("1")>> >>)>> >>)

ProviderOutcomes == { Returns(ProviderMessage), Throws("provider unavailable") }

SettleOutcomes ==
    { Returns(Obj(<< <<"success", Bool(TRUE)>>, <<"transaction", Str("sigA")>> >>)),
      Returns(Obj(<< <<"success", Bool(FALSE)>>,
                     <<"errorReason", Str("settle_failed")>> >>)),
      Returns(Null) } \cup TransportErrors

(***************************************************************************)
(* State.                                                                  *)
(***************************************************************************)
VARIABLES
    x402,         \* TRUE iff the import of x402-solana/server succeeded
    pc,           \* pc[r]: where the handler of request r is
    headers,      \* headers[r]: the headers request r came with
    calls,        \* calls[r]: the external calls request r has made, in order
    outcomes,     \* outcomes[r]: how those calls ended, outcomes[r][i] for calls[r][i]
    verified,     \* verified[r]: the handler's local of that name
    message,      \* message[r]: the handler's local of that name
    settlement,   \* settlement[r]: the handler's local of that name
    response,     \* response[r]: the response sent for request r
    doneBefore,   \* doneBefore[r]: the requests answered before r arrived
    now,          \* the time, in seconds since the server started
    arrivedAt,    \* arrivedAt[r]: the time request r arrived (and was challenged)
    client,       \* the buyer client's run of manualFlow (see below)
    codec,        \* a payload on its way through the header codec (see below)
    closedAt      \* closedAt[r]: where the handler of r was when the caller closed
                  \* the connection, "open" while it has not

vars == <<x402, pc, headers, calls, outcomes, verified, message, settlement, response,
          doneBefore, now, arrivedAt, client, codec, closedAt>>

NoHeaders == [xPayment |-> Undefined, paymentSignature |-> Undefined]

\* The buyer client before manualFlow runs.
ClientIdle ==
    [pc |-> "idle",
     sent |-> <<>>,               \* the requests sent to the merchant, in order
     req402 |-> Undefined,        \* the requirements parsed from the challenge
     receiverATAExists |-> TRUE,  \* the local of that name
     receiverOnChain |-> TRUE,    \* whether the receiver's token account exists
     tx |-> <<>>,                 \* the instructions of the transaction built
     signed |-> <<>>,             \* the transactions signed, in order
     initialStatus |-> 0,         \* initialResp.status, 0 before the response
     balance |-> Undefined,       \* balance.value.amount of the sender's account
     paidStatus |-> 0,            \* paidResp.status, 0 before the response
     result |-> "none"]           \* how manualFlow ended
\* The codec before a payload is handed to it.
CodecIdle == [stage |-> "idle", x |-> Undefined, text |-> <<>>, decoded |-> ParseFailed]

NoResponse == [status |-> 0, body |-> Undefined, xPaymentResponse |-> Undefined]

Init ==
    /\ x402 \in BOOLEAN
    /\ pc = [r \in Reqs |-> "idle"]
    /\ headers = [r \in Reqs |-> NoHeaders]
    /\ calls = [r \in Reqs |-> <<>>]
    /\ outcomes = [r \in Reqs |-> <<>>]
    /\ verified = [r \in Reqs |-> Undefined]
    /\ message = [r \in Reqs |-> Undefined]
    /\ settlement = [r \in Reqs |-> Undefined]
    /\ response = [r \in Reqs |-> NoResponse]
    /\ doneBefore = [r \in Reqs |-> {}]
    /\ now = 0
    /\ arrivedAt = [r \in Reqs |-> 0]
    /\ client = ClientIdle
    /\ codec = CodecIdle
    /\ closedAt = [r \in Reqs |-> "open"]

(***************************************************************************)
(* Pieces of the handler.                                                  *)
(***************************************************************************)
\* The requests sent to the gateway.  With the SDK handler the header is
\* decoded inside the SDK, which is no part of the repository: headers that
\* do not decode are sent to the manual implementation only.
RequestHeaders ==
    IF x402 THEN WellFormedRequests ELSE WellFormedRequests \cup MalformedRequests

\* The payment header of a request (v1: X-PAYMENT, v2: PAYMENT-SIGNATURE).
ExtractPayment(h) == IF Truthy(h.xPayment) THEN h.xPayment ELSE h.paymentSignature

\* A handler whose requirements carry another price than the challenge.
BuildPaymentRequirementsOtherPrice(resourceUrl) ==
    X402CreatePaymentRequirements("20000", USDC_ADDRESS, resourceUrl)

\* The payment requirements the handler builds for every request.
BuildPaymentRequirements(resourceUrl) ==
    IF x402
    THEN X402CreatePaymentRequirements(PRICE_ATOMIC, USDC_ADDRESS, resourceUrl)
    ELSE Get(manualCreate402Response(resourceUrl).body, "accepts")[2][1]

\* A gateway that answers an unpaid request with an error instead of the
\* challenge.
Create402AsServerError(paymentRequirements, resourceUrl) ==
    [status |-> 500,
     body |-> ResJson(Obj(<< <<"error", Str("X-PAYMENT header is required")>> >>)),
     xPaymentResponse |-> Undefined]

\* The response to a request without payment.
Create402(paymentRequirements, resourceUrl) ==
    LET resp402 == IF x402
                   THEN X402Create402Response(paymentRequirements, resourceUrl)
                   ELSE manualCreate402Response(resourceUrl)
    IN  [status |-> resp402.status, body |-> ResJson(resp402.body),
         xPaymentResponse |-> Undefined]

\* A catch block that blames the caller for every error.
CatchResponseAs400(errMessage) ==
    [status |-> 400, body |-> ResJson(Obj(<< <<"error", Str(errMessage)>> >>)),
     xPaymentResponse |-> Undefined]

\* The catch block: res.status(500).json({ error: err.message }).
CatchResponse(errMessage) ==
    [status |-> 500, body |-> ResJson(Obj(<< <<"error", Str(errMessage)>> >>)),
     xPaymentResponse |-> Undefined]

\* The response to a payment the facilitator found invalid.
VerificationFailedResponse(v) ==
    [status |-> 402,
     body |-> ResJson(Obj(<< <<"error", Str("Payment verification failed")>>,
                             <<"reason", Get(v, "invalidReason")>> >>)),
     xPaymentResponse |-> Undefined]

\* A test that rejects only a result without the isValid field.
VerificationRejectedOnlyMissing(v) == Get(v, "isValid") = Undefined

\* if (!verified.isValid)
VerificationRejected(v) == ~Truthy(Get(v, "isValid"))

\* a || b
OrElse(a, b) == IF Truthy(a) THEN a ELSE b

\* A receipt that reports every payment as settled.
PaymentResponseHeaderAlwaysSuccess(s, v) ==
    Chars(Base64Encode(JSONStringify(Obj(<<
        <<"success", Bool(TRUE)>>,
        <<"transaction", OrElse(Get(s, "transaction"), Str(""))>>,
        <<"network", Str(NETWORK)>>,
        <<"payer", Get(v, "payer")>> >>))))

\* The base64 receipt of the X-PAYMENT-RESPONSE header.
PaymentResponseHeader(s, v) ==
    Chars(Base64Encode(JSONStringify(Obj(<<
        <<"success", Get(s, "success")>>,
        <<"transaction", OrElse(Get(s, "transaction"), Str(""))>>,
        <<"network", Str(NETWORK)>>,
        <<"payer", Get(v, "payer")>> >>))))

\* A success body that reports every payment as settled.
SuccessResponseAlwaysSettled(m, s, v) ==
    [status |-> 200,
     body |-> ResJson(Obj(<<
        <<"content", Get(Get(m, "content")[2][1], "text")>>,
        <<"model", Get(m, "model")>>,
        <<"usage", Get(m, "usage")>>,
        <<"payment", Obj(<< <<"settled", Bool(TRUE)>>,
                            <<"transaction", OrElse(Get(s, "transaction"), Null)>>,
                            <<"network", Str(NETWORK)>> >>)>> >>)),
     xPaymentResponse |-> PaymentResponseHeader(s, v)]

\* The response carrying the provider's result and the payment receipt.
SuccessResponse(m, s, v) ==
    [status |-> 200,
     body |-> ResJson(Obj(<<
        <<"content", Get(Get(m, "content")[2][1], "text")>>,
        <<"model", Get(m, "model")>>,
        <<"usage", Get(m, "usage")>>,
        <<"payment", Obj(<< <<"settled", Get(s, "success")>>,
                            <<"transaction", OrElse(Get(s, "transaction"), Null)>>,
                            <<"network", Str(NETWORK)>> >>)>> >>)),
     xPaymentResponse |-> PaymentResponseHeader(s, v)]

\* A call the handler makes, with the arguments it passes.
Call(op, paymentHeader, paymentRequirements) ==
    [op |-> op, paymentHeader |-> paymentHeader,
     paymentRequirements |-> paymentRequirements]

\* Property reads that never throw (as with optional chaining).
ReadThrowsNever(v) == FALSE

\* Reading a property of v throws a TypeError iff v is null or undefined.
ReadThrows(v) == v[1] \in {"null", "undef"}

\* The handler answers request r and returns.
Respond(r, resp) ==
    /\ response' = [response EXCEPT ![r] = resp]
    /\ pc' = [pc EXCEPT ![r] = "done"]

(***************************************************************************)
(* The handler of POST /v1/chat, one action per stretch between awaits.    *)
(***************************************************************************)
\* Request r arrives with headers h: the handler runs up to the await of
\* the verify call, or answers.
HandleRequest(r, h) ==
    /\ pc[r] = "idle"
    /\ \A q \in Reqs : q < r => pc[q] # "idle"
    /\ headers' = [headers EXCEPT ![r] = h]
    /\ doneBefore' = [doneBefore EXCEPT ![r] = {q \in Reqs : pc[q] = "done"}]
    /\ LET paymentHeader == ExtractPayment(h)
           paymentRequirements == BuildPaymentRequirements(ResourceUrl)
       IN  IF ~Truthy(paymentHeader)
           THEN /\ Respond(r, Create402(paymentRequirements, ResourceUrl))
                /\ UNCHANGED calls
           ELSE IF ~x402 /\ ~DecodePaymentHeader(paymentHeader).ok
           THEN /\ Respond(r, CatchResponse("Unexpected token in JSON"))
                /\ UNCHANGED calls
           ELSE /\ calls' = [calls EXCEPT ![r] =
                               Append(@, Call("verify", paymentHeader, paymentRequirements))]
                /\ pc' = [pc EXCEPT ![r] = "verify"]
                /\ UNCHANGED response
    /\ arrivedAt' = [arrivedAt EXCEPT ![r] = now]
    /\ UNCHANGED <<x402, outcomes, verified, message, settlement, now, client, codec, closedAt>>

\* A handler that takes a lock shared by all requests before it goes on to
\* the provider: it continues only while no other request holds it.
VerifyReturnsUnderLock(r, out) ==
    /\ pc[r] = "verify"
    /\ \A q \in Reqs \ {r} : pc[q] \notin {"provider", "settle"}
    /\ outcomes' = [outcomes EXCEPT ![r] = Append(@, out)]
    /\ IF out.kind = "throws"
       THEN /\ Respond(r, CatchResponse(out.message))
            /\ UNCHANGED <<calls, verified>>
       ELSE /\ verified' = [verified EXCEPT ![r] = out.val]
            /\ IF ReadThrows(out.val)
               THEN /\ Respond(r, CatchResponse("Cannot read properties of null"))
                    /\ UNCHANGED calls
               ELSE IF VerificationRejected(out.val)
               THEN /\ Respond(r, VerificationFailedResponse(out.val))
                    /\ UNCHANGED calls
               ELSE /\ calls' = [calls EXCEPT ![r] =
                                   Append(@, Call("provider", Undefined, Undefined))]
                    /\ pc' = [pc EXCEPT ![r] = "provider"]
                    /\ UNCHANGED response
    /\ UNCHANGED <<x402, headers, message, settlement, doneBefore, now,
                   arrivedAt, client, codec, closedAt>>

\* The verify call of request r ends with outcome out: the handler runs up
\* to the await of the provider call, or answers.
VerifyReturns(r, out) ==
    /\ pc[r] = "verify"
    /\ outcomes' = [outcomes EXCEPT ![r] = Append(@, out)]
    /\ IF out.kind = "throws"
       THEN /\ Respond(r, CatchResponse(out.message))
            /\ UNCHANGED <<calls, verified>>
       ELSE /\ verified' = [verified EXCEPT ![r] = out.val]
            /\ IF ReadThrows(out.val)
               THEN /\ Respond(r, CatchResponse("Cannot read properties of null"))
                    /\ UNCHANGED calls
               ELSE IF VerificationRejected(out.val)
               THEN /\ Respond(r, VerificationFailedResponse(out.val))
                    /\ UNCHANGED calls
               ELSE /\ calls' = [calls EXCEPT ![r] =
                                   Append(@, Call("provider", Undefined, Undefined))]
                    /\ pc' = [pc EXCEPT ![r] = "provider"]
                    /\ UNCHANGED response
    /\ UNCHANGED <<x402, headers, message, settlement, doneBefore, now,
                   arrivedAt, client, codec, closedAt>>

\* A handler that swallows the provider's error and settles all the same.
ProviderReturnsSettlesAnyway(r, out) ==
    /\ pc[r] = "provider"
    /\ outcomes' = [outcomes EXCEPT ![r] = Append(@, out)]
    /\ message' = [message EXCEPT ![r] =
                      IF out.kind = "throws" THEN ProviderMessage ELSE out.val]
    /\ calls' = [calls EXCEPT ![r] =
                    Append(@, Call("settle", calls[r][1].paymentHeader,
                                   calls[r][1].paymentRequirements))]
    /\ pc' = [pc EXCEPT ![r] = "settle"]
    /\ UNCHANGED <<x402, headers, verified, settlement, response, doneBefore,
                   now, arrivedAt, client, codec, closedAt>>

\* The provider call of request r ends with outcome out: the handler runs
\* up to the await of the settle call, or answers.
ProviderReturns(r, out) ==
    /\ pc[r] = "provider"
    /\ outcomes' = [outcomes EXCEPT ![r] = Append(@, out)]
    /\ IF out.kind = "throws"
       THEN /\ Respond(r, CatchResponse(out.message))
            /\ UNCHANGED <<calls, message>>
       ELSE /\ message' = [message EXCEPT ![r] = out.val]
            /\ IF ~x402 /\ ~DecodePaymentHeader(calls[r][1].paymentHeader).ok
               THEN /\ Respond(r, CatchResponse("Unexpected token in JSON"))
                    /\ UNCHANGED calls
               ELSE /\ calls' = [calls EXCEPT ![r] =
                                   Append(@, Call("settle", calls[r][1].paymentHeader,
                                                  calls[r][1].paymentRequirements))]
                    /\ pc' = [pc EXCEPT ![r] = "settle"]
                    /\ UNCHANGED response
    /\ UNCHANGED <<x402, headers, verified, settlement, doneBefore, now,
                   arrivedAt, client, codec, closedAt>>

\* A handler whose settle call is outside the try block: an error of the
\* call rejects the handler's promise and nothing is sent.
SettleReturnsUncaught(r, out) ==
    /\ pc[r] = "settle"
    /\ outcomes' = [outcomes EXCEPT ![r] = Append(@, out)]
    /\ IF out.kind = "throws"
       THEN /\ pc' = [pc EXCEPT ![r] = "rejected"]
            /\ UNCHANGED <<response, settlement>>
       ELSE /\ settlement' = [settlement EXCEPT ![r] = out.val]
            /\ IF ReadThrows(out.val)
               THEN Respond(r, CatchResponse("Cannot read properties of null"))
               ELSE Respond(r, SuccessResponse(message[r], out.val, verified[r]))
    /\ UNCHANGED <<x402, headers, calls, verified, message, doneBefore,
                   now, arrivedAt, client, codec, closedAt>>

\* The settle call of request r ends with outcome out: the handler answers.
SettleReturns(r, out) ==
    /\ pc[r] = "settle"
    /\ outcomes' = [outcomes EXCEPT ![r] = Append(@, out)]
    /\ IF out.kind = "throws"
       THEN /\ Respond(r, CatchResponse(out.message))
            /\ UNCHANGED settlement
       ELSE /\ settlement' = [settlement EXCEPT ![r] = out.val]
            /\ IF ReadThrows(out.val)
               THEN Respond(r, CatchResponse("Cannot read properties of null"))
               ELSE Respond(r, SuccessResponse(message[r], out.val, verified[r]))
    /\ UNCHANGED <<x402, headers, calls, verified, message, doneBefore,
                   now, arrivedAt, client, codec, closedAt>>

Next ==
    \/ \E r \in Reqs, h \in RequestHeaders : HandleRequest(r, h)
    \/ \E r \in Reqs, out \in VerifyOutcomes : VerifyReturns(r, out)
    \/ \E r \in Reqs, out \in ProviderOutcomes : ProviderReturns(r, out)
    \/ \E r \in Reqs, out \in SettleOutcomes : SettleReturns(r, out)

Spec == Init /\ [][Next]_vars

(***************************************************************************)
(* The gateway when every external call ends: each awaited call of each    *)
(* request eventually returns or throws.                                   *)
(***************************************************************************)
CallsEnd ==
    \A r \in Reqs :
        /\ WF_vars(\E out \in VerifyOutcomes : VerifyReturns(r, out))
        /\ WF_vars(\E out \in ProviderOutcomes : ProviderReturns(r, out))
        /\ WF_vars(\E out \in SettleOutcomes : SettleReturns(r, out))

SpecLive == Init /\ [][Next]_vars /\ CallsEnd

(***************************************************************************)
(* The gateway whose callers may close the connection while their request  *)
(* is in flight.  The handler registers no listener for the close of the   *)
(* connection and passes no abort signal to its calls.                     *)
(***************************************************************************)
\* A handler that stops when its caller goes away.
ConnectionClosedAbandons(r) ==
    /\ pc[r] \in {"verify", "provider", "settle"}
    /\ closedAt[r] = "open"
    /\ closedAt' = [closedAt EXCEPT ![r] = pc[r]]
    /\ pc' = [pc EXCEPT ![r] = "done"]
    /\ UNCHANGED <<x402, headers, calls, outcomes, verified, message, settlement,
                   response, doneBefore, now, arrivedAt, client, codec>>

\* The caller of request r closes the connection while the handler awaits a
\* call: nothing in the handler observes it.
ConnectionClosed(r) ==
    /\ pc[r] \in {"verify", "provider", "settle"}
    /\ closedAt[r] = "open"
    /\ closedAt' = [closedAt EXCEPT ![r] = pc[r]]
    /\ UNCHANGED <<x402, pc, headers, calls, outcomes, verified, message, settlement,
                   response, doneBefore, now, arrivedAt, client, codec>>

NextCancel ==
    \/ \E r \in Reqs, h \in RequestHeaders : HandleRequest(r, h)
    \/ \E r \in Reqs, out \in VerifyOutcomes : VerifyReturns(r, out)
    \/ \E r \in Reqs, out \in ProviderOutcomes : ProviderReturns(r, out)
    \/ \E r \in Reqs, out \in SettleOutcomes : SettleReturns(r, out)
    \/ \E r \in Reqs : ConnectionClosed(r)

SpecCancel == Init /\ [][NextCancel]_vars /\ CallsEnd

(***************************************************************************)
(* The gateway with time passing between its steps.                        *)
(***************************************************************************)
\* maxTimeoutSeconds of the requirements, in seconds.
MaxTimeoutSeconds == 300

\* How many times the clock is advanced.
MaxClockTicks == 1

\* Time passes: the clock moves just beyond the validity window.
Tick ==
    /\ now + (MaxTimeoutSeconds + 1) <= MaxClockTicks * (MaxTimeoutSeconds + 1)
    /\ now' = now + (MaxTimeoutSeconds + 1)
    /\ UNCHANGED <<x402, pc, headers, calls, outcomes, verified, message, settlement,
                   response, doneBefore, arrivedAt, client, codec, closedAt>>

NextTimed ==
    \/ \E r \in Reqs, h \in RequestHeaders : HandleRequest(r, h)
    \/ \E r \in Reqs, out \in VerifyOutcomes : VerifyReturns(r, out)
    \/ \E r \in Reqs, out \in ProviderOutcomes : ProviderReturns(r, out)
    \/ \E r \in Reqs, out \in SettleOutcomes : SettleReturns(r, out)
    \/ Tick

SpecTimed == Init /\ [][NextTimed]_vars

(***************************************************************************)
(* The buyer client: manualFlow, one action per stretch between awaits.    *)
(***************************************************************************)
KEYPAIR_PUBLIC_KEY == "buyerWallet"

\* What the merchant and the Solana RPC node answer.
Resp(status, body) == [status |-> status, body |-> body, xPaymentResponse |-> Undefined]
FetchReturns(resp) == [kind |-> "returns", resp |-> resp]
FetchThrows == [kind |-> "throws", resp |-> NoResponse]

MerchantRequirements(scheme, network, amount) ==
    Obj(<< <<"scheme", Str(scheme)>>,
           <<"network", Str(network)>>,
           <<"maxAmountRequired", Str(amount)>>,
           <<"asset", Str(USDC_DEVNET)>>,
           <<"payTo", Str(TREASURY_ADDRESS)>>,
           <<"resource", Str(ResourceUrl)>>,
           <<"maxTimeoutSeconds", Num("300")>> >>)

\* The answers to the unpaid request: the gateway's own challenge, the
\* challenges of other merchants, and answers that are no challenge.
InitialResponses ==
    { FetchReturns(Create402(BuildPaymentRequirements(ResourceUrl), ResourceUrl)),
      FetchReturns(Resp(402, Obj(<< <<"x402Version", Num("1")>>,
            <<"accepts", Arr(<<MerchantRequirements("upto", "solana", "20000")>>)>> >>))),
      FetchReturns(Resp(402, MerchantRequirements("exact", "solana", "10000"))),
      FetchReturns(Resp(402, Obj(<< <<"error", Str("payment required")>> >>))),
      FetchReturns(Resp(401, Obj(<< <<"x402Version", Num("1")>>,
            <<"accepts", Arr(<<MerchantRequirements("exact", NETWORK, "10000")>>)>> >>))),
      FetchReturns(Resp(200, Obj(<< <<"content", Str("Hello from Claude")>> >>))),
      FetchReturns(Resp(500, Obj(<< <<"error", Str("fetch failed")>> >>))),
      FetchThrows }

PaidResponses ==
    { FetchReturns(Resp(200, Obj(<< <<"content", Str("Hello from Claude")>> >>))),
      FetchReturns(Resp(402, Obj(<< <<"error", Str("Payment verification failed")>> >>))),
      FetchReturns(Resp(500, Obj(<< <<"error", Str("fetch failed")>> >>))),
      FetchThrows }

TokenAccountBalance(amount) ==
    Returns(Obj(<< <<"value", Obj(<< <<"amount", Str(amount)>> >>)>> >>))

SenderBalanceOutcomes ==
    { TokenAccountBalance("0"), TokenAccountBalance("9999"),
      TokenAccountBalance("10000"), TokenAccountBalance("20000"),
      Throws("could not find account") }

\* The answers to the look-up of the receiver's token account, which exists
\* on chain or not; the RPC call itself can fail in both cases.
ReceiverLookupOutcomes(onChain) ==
    IF onChain
    THEN { TokenAccountBalance("0"), Throws("fetch failed") }
    ELSE { Throws("could not find account"), Throws("fetch failed") }

BlockhashOutcomes ==
    { Returns(Obj(<< <<"blockhash", Str("hashA")>> >>)), Throws("fetch failed") }

\* The digits of a decimal literal, <<>> for a string that is none.
DecimalDigits(str) ==
    CASE str = "0" -> <<0>>
      [] str = "1" -> <<1>>
      [] str = "300" -> <<3, 0, 0>>
      [] str = "9999" -> <<9, 9, 9, 9>>
      [] str = "10000" -> <<1, 0, 0, 0, 0>>
      [] str = "20000" -> <<2, 0, 0, 0, 0>>
      [] OTHER -> <<>>

\* BigInt(v) throws for undefined, null and a string that is no number.
BigIntThrows(v) ==
    ~ \/ v[1] = "num"
      \/ v[1] = "bool"
      \/ v[1] = "str" /\ (v[2] = "" \/ DecimalDigits(v[2]) # <<>>)

RECURSIVE DigitsValue(_, _)
DigitsValue(digits, acc) ==
    IF digits = <<>> THEN acc
    ELSE DigitsValue(Tail(digits), 10 * acc + Head(digits))

BigInt(v) ==
    CASE v[1] = "bool" -> IF v[2] = "true" THEN 1 ELSE 0
      [] OTHER -> DigitsValue(DecimalDigits(v[2]), 0)

\* new PublicKey(v) throws unless v is the base58 text of a key.
PublicKeyThrows(v) ==
    ~(v[1] = "str" /\ v[2] \in {USDC_DEVNET, USDC_MAINNET, TREASURY_ADDRESS})

\* getAssociatedTokenAddress(mint, owner)
AssociatedTokenAddress(mint, owner) == <<"ata", mint, owner>>

createAssociatedTokenAccountInstruction(payer, ata, owner, mint) ==
    [type |-> "createAssociatedTokenAccount", source |-> AssociatedTokenAddress("", ""),
     destination |-> ata, authority |-> payer, owner |-> owner, mint |-> mint,
     amount |-> 0]

createTransferInstruction(source, destination, owner, amount) ==
    [type |-> "transfer", source |-> source, destination |-> destination,
     authority |-> owner, owner |-> "", mint |-> "", amount |-> amount]

\* paymentRequired.accepts?.[0] || paymentRequired
Req402Of(paymentRequired) ==
    LET accepts == Get(paymentRequired, "accepts")
        first == IF accepts[1] = "arr" /\ Len(accepts[2]) > 0
                 THEN accepts[2][1] ELSE Undefined
    IN  OrElse(first, paymentRequired)

NotAChallengeUnlessOk(status) == status = 200

\* if (initialResp.status !== 402) return
NotAChallenge(status) == status # 402

InsufficientBalanceReversed(balance, amount) == amount < balance

\* if (BigInt(balance.value.amount) < amount) return
InsufficientBalance(balance, amount) == balance < amount

\* The transaction manualFlow builds.
BuildTransaction(req402, receiverATAExists) ==
    LET mint == Get(req402, "asset")[2]
        payToKey == Get(req402, "payTo")[2]
        amount == BigInt(Get(req402, "maxAmountRequired"))
        senderATA == AssociatedTokenAddress(mint, KEYPAIR_PUBLIC_KEY)
        receiverATA == AssociatedTokenAddress(mint, payToKey)
    IN  (IF receiverATAExists THEN <<>>
         ELSE <<createAssociatedTokenAccountInstruction(
                    KEYPAIR_PUBLIC_KEY, receiverATA, payToKey, mint)>>)
        \o <<createTransferInstruction(senderATA, receiverATA, KEYPAIR_PUBLIC_KEY, amount)>>

\* tx.serialize().toString('base64'): the text that stands for the signed
\* transaction, one text per content.
SerializedTx(tx) ==
    LET amount == tx[Len(tx)].amount
    IN  CASE amount = 10000 -> IF Len(tx) = 1 THEN "tx:transfer:10000"
                               ELSE "tx:create+transfer:10000"
          [] OTHER -> IF Len(tx) = 1 THEN "tx:transfer:20000"
                      ELSE "tx:create+transfer:20000"

\* The payload manualFlow wraps the signed transaction in.
ClientPaymentPayload(network, serializedTx) ==
    Obj(<< <<"x402Version", Num("1")>>,
           <<"scheme", Str("exact")>>,
           <<"network", network>>,
           <<"payload", Obj(<< <<"transaction", Str(serializedTx)>> >>)>> >>)

ClientEnds(how) == client' = [client EXCEPT !.pc = "done", !.result = how]

gatewayVars == <<x402, pc, headers, calls, outcomes, verified, message, settlement,
                 response, doneBefore, now, arrivedAt, closedAt>>

\* Step 1: the request without payment is sent.
ClientStart ==
    /\ client.pc = "idle"
    /\ client' = [client EXCEPT !.pc = "initial",
                                !.sent = Append(@, NoHeaders)]
    /\ UNCHANGED <<gatewayVars, codec>>

\* The answer to the unpaid request: the requirements are parsed and the
\* sender's balance is asked for.
ClientInitialResponse(o) ==
    /\ client.pc = "initial"
    /\ IF o.kind = "throws" THEN ClientEnds("threw")
       ELSE IF NotAChallenge(o.resp.status)
       THEN client' = [client EXCEPT !.pc = "done", !.result = "returned",
                                     !.initialStatus = o.resp.status]
       ELSE LET req402 == Req402Of(o.resp.body) IN
            IF \/ PublicKeyThrows(Get(req402, "asset"))
               \/ PublicKeyThrows(Get(req402, "payTo"))
               \/ BigIntThrows(Get(req402, "maxAmountRequired"))
            THEN client' = [client EXCEPT !.pc = "done", !.result = "threw",
                                          !.initialStatus = o.resp.status]
            ELSE client' = [client EXCEPT !.pc = "balance", !.req402 = req402,
                                          !.initialStatus = o.resp.status]
    /\ UNCHANGED <<gatewayVars, codec>>

\* The sender's balance is known: the flow ends if it does not cover the
\* amount, else the receiver's token account is looked up.
ClientSenderBalance(o) ==
    /\ client.pc = "balance"
    /\ IF o.kind = "throws" THEN ClientEnds("returned")
       ELSE LET amount == Get(Get(o.val, "value"), "amount") IN
            IF InsufficientBalance(BigInt(amount),
                                   BigInt(Get(client.req402, "maxAmountRequired")))
            THEN client' = [client EXCEPT !.pc = "done", !.result = "returned",
                                          !.balance = amount]
            ELSE client' = [client EXCEPT !.pc = "receiver", !.balance = amount]
    /\ UNCHANGED <<gatewayVars, codec>>

\* The look-up of the receiver's token account ends: the transaction is
\* built and a recent blockhash asked for.
ClientReceiverLookup(onChain, o) ==
    /\ client.pc = "receiver"
    /\ LET receiverATAExists == (o.kind = "returns") IN
       client' = [client EXCEPT !.pc = "blockhash",
                                !.receiverOnChain = onChain,
                                !.receiverATAExists = receiverATAExists,
                                !.tx = BuildTransaction(client.req402, receiverATAExists)]
    /\ UNCHANGED <<gatewayVars, codec>>

\* The blockhash arrives: the transaction is signed and serialized, and the
\* request is sent again with the X-PAYMENT header.
ClientBlockhash(o) ==
    /\ client.pc = "blockhash"
    /\ IF o.kind = "throws" THEN ClientEnds("threw")
       ELSE LET paymentPayload ==
                    ClientPaymentPayload(Get(client.req402, "network"),
                                         SerializedTx(client.tx))
            IN  client' = [client EXCEPT
                    !.pc = "paid",
                    !.signed = Append(@, client.tx),
                    !.sent = Append(@, [xPayment |-> XPaymentHeader(paymentPayload),
                                        paymentSignature |-> Undefined])]
    /\ UNCHANGED <<gatewayVars, codec>>

ClientPaidResponseRetriesOn402(o) ==
    /\ client.pc = "paid"
    /\ IF o.kind = "throws" THEN ClientEnds("threw")
       ELSE IF o.resp.status = 402
       THEN client' = [client EXCEPT !.pc = "balance", !.paidStatus = o.resp.status]
       ELSE client' = [client EXCEPT !.pc = "done", !.result = "returned",
                                     !.paidStatus = o.resp.status]
    /\ UNCHANGED <<gatewayVars, codec>>

\* The answer to the paid request: manualFlow prints it and returns.
ClientPaidResponse(o) ==
    /\ client.pc = "paid"
    /\ IF o.kind = "throws" THEN ClientEnds("threw")
       ELSE client' = [client EXCEPT !.pc = "done", !.result = "returned",
                                     !.paidStatus = o.resp.status]
    /\ UNCHANGED <<gatewayVars, codec>>

ClientNext ==
    \/ ClientStart
    \/ \E o \in InitialResponses : ClientInitialResponse(o)
    \/ \E o \in SenderBalanceOutcomes : ClientSenderBalance(o)
    \/ \E onChain \in BOOLEAN :
          \E o \in ReceiverLookupOutcomes(onChain) : ClientReceiverLookup(onChain, o)
    \/ \E o \in BlockhashOutcomes : ClientBlockhash(o)
    \/ \E o \in PaidResponses : ClientPaidResponse(o)

SpecClient == Init /\ [][ClientNext]_vars

(***************************************************************************)
(* The header codec: the client encodes a payload (manualFlow), the        *)
(* gateway decodes it (manualVerifyPayment, manualSettlePayment).          *)
(***************************************************************************)
Schemes == {"exact", "upto"}
Networks == {"solana-devnet", "solana"}
Transactions ==
    {"txA", "txB", "tx:transfer:10000", "tx:create+transfer:10000",
     "tx:transfer:20000", "tx:create+transfer:20000"}

\* The payloads of the protocol, with and without a member beyond the four
\* the client writes.
ValidPayloads ==
    {PaymentPayload(s, n, t) : s \in Schemes, n \in Networks, t \in Transactions}
    \cup {Obj(SetEntry(PaymentPayload(s, n, t)[2], "payer", Str("payerA"))) :
              s \in Schemes, n \in Networks, t \in Transactions}

codecOthers == <<gatewayVars, client>>

\* const paymentPayload = { ... }
CodecPayload(x) ==
    /\ codec.stage = "idle"
    /\ codec' = [codec EXCEPT !.stage = "payload", !.x = x]
    /\ UNCHANGED codecOthers

\* JSON.stringify(paymentPayload)
CodecStringify ==
    /\ codec.stage = "payload"
    /\ codec' = [codec EXCEPT !.stage = "json", !.text = JSONStringify(codec.x)]
    /\ UNCHANGED codecOthers

\* Buffer.from(json).toString('base64')
CodecToBase64 ==
    /\ codec.stage = "json"
    /\ codec' = [codec EXCEPT !.stage = "header", !.text = Base64Encode(codec.text)]
    /\ UNCHANGED codecOthers

\* Buffer.from(paymentHeader, 'base64').toString()
CodecFromBase64 ==
    /\ codec.stage = "header"
    /\ codec' = [codec EXCEPT !.stage = "bytes", !.text = Base64Decode(codec.text)]
    /\ UNCHANGED codecOthers

\* JSON.parse(...)
CodecParse ==
    /\ codec.stage = "bytes"
    /\ codec' = [codec EXCEPT !.stage = "parsed", !.decoded = JSONParse(codec.text)]
    /\ UNCHANGED codecOthers

CodecNext ==
    \/ \E x \in ValidPayloads : CodecPayload(x)
    \/ CodecStringify
    \/ CodecToBase64
    \/ CodecFromBase64
    \/ CodecParse

SpecCodec == Init /\ [][CodecNext]_vars

(***************************************************************************)
(* Vocabulary of the properties.                                           *)
(***************************************************************************)
Started(r) == pc[r] # "idle"
Done(r) == pc[r] = "done"
CallOps(r) == {calls[r][i].op : i \in 1..Len(calls[r])}
PaymentHeaderOf(r) == ExtractPayment(headers[r])

\* Request r carries a payment header that decodes to a JSON value.
HasPayload(r) ==
    /\ Started(r)
    /\ Truthy(PaymentHeaderOf(r))
    /\ DecodePaymentHeader(PaymentHeaderOf(r)).ok
PayloadOf(r) == DecodePaymentHeader(PaymentHeaderOf(r)).val

\* The fingerprint of a payload: its transaction blob.
Fingerprint(r) == Get(Get(PayloadOf(r), "payload"), "transaction")

\* Requests r1 and r2 overlap: neither was answered before the other arrived.
Concurrent(r1, r2) ==
    /\ r1 # r2 /\ Started(r1) /\ Started(r2)
    /\ r1 \notin doneBefore[r2] /\ r2 \notin doneBefore[r1]

ClientError(r) == Done(r) /\ response[r].status \in 400..499
ServerError(r) == Done(r) /\ response[r].status \in 500..599

\* How the i-th call of request r ended, if it has.
Ended(r, i) == Len(outcomes[r]) >= i
VerifyValid(r) ==
    /\ Ended(r, 1) /\ outcomes[r][1].kind = "returns"
    /\ Get(outcomes[r][1].val, "isValid") = Bool(TRUE)
VerifyInvalid(r) ==
    /\ Ended(r, 1) /\ outcomes[r][1].kind = "returns"
    /\ Get(outcomes[r][1].val, "isValid") = Bool(FALSE)
VerifyThrew(r) == Ended(r, 1) /\ outcomes[r][1].kind = "throws"
ProviderSucceeded(r) == Ended(r, 2) /\ outcomes[r][2].kind = "returns"
ProviderThrew(r) == Ended(r, 2) /\ outcomes[r][2].kind = "throws"
SettleReturned(r) ==
    /\ Ended(r, 3) /\ outcomes[r][3].kind = "returns"
    /\ IsObj(outcomes[r][3].val)
SettleUnsuccessful(r) ==
    SettleReturned(r) /\ Get(outcomes[r][3].val, "success") = Bool(FALSE)

\* The provider's result, as the response body carries it.
ProviderText == Get(Get(ProviderMessage, "content")[2][1], "text")
CarriesProviderResult(r) == Done(r) /\ Get(response[r].body, "content") = ProviderText

\* Every call of request r was answered favourably: the payment verified,
\* the provider delivered and the facilitator returned a settlement result.
AllAnswered(r) == VerifyValid(r) /\ ProviderSucceeded(r) /\ SettleReturned(r)

\* The receipt of the X-PAYMENT-RESPONSE header, decoded as the client does.
ReceiptOf(r) == JSONParse(Base64Decode(response[r].xPaymentResponse[2])).val

(***************************************************************************)
(* C1.  A request that carries no payment header is answered with 402 and  *)
(* the payment requirements, and makes no verify, settle or provider call. *)
(***************************************************************************)
C1_UnpaidChallenged ==
    \A r \in Reqs :
        (Started(r) /\ headers[r] = NoHeaders) =>
            /\ Done(r)
            /\ response[r].status = 402
            /\ Get(response[r].body, "accepts")
                 = Arr(<<BuildPaymentRequirements(ResourceUrl)>>)
            /\ Get(Get(response[r].body, "accepts")[2][1], "maxAmountRequired")
                 = Str(PRICE_ATOMIC)
            /\ calls[r] = <<>>

C1_Witness ==
    \E r \in Reqs :
        /\ Done(r) /\ headers[r] = NoHeaders
        /\ response[r].status = 402 /\ calls[r] = <<>>

(***************************************************************************)
(* C2.  Of two concurrent requests that carry the same fingerprint, at     *)
(* most one makes a settle call.                                           *)
(***************************************************************************)
C2_AtMostOneSettle ==
    \A r1, r2 \in Reqs :
        (/\ Concurrent(r1, r2)
         /\ HasPayload(r1) /\ HasPayload(r2)
         /\ Fingerprint(r1) = Fingerprint(r2))
        => ~("settle" \in CallOps(r1) /\ "settle" \in CallOps(r2))

(***************************************************************************)
(* C3.  Once a request has completed with a settlement, a later request    *)
(* with the identical payload makes no provider call and no settle call.   *)
(***************************************************************************)
C3_ReplayRejected ==
    \A q, r \in Reqs :
        (/\ q \in doneBefore[r]
         /\ "settle" \in CallOps(q) /\ response[q].status = 200
         /\ HasPayload(q) /\ HasPayload(r)
         /\ PaymentHeaderOf(q) = PaymentHeaderOf(r))
        => /\ "provider" \notin CallOps(r)
           /\ "settle" \notin CallOps(r)

(***************************************************************************)
(* C4.  A request whose payload has another (scheme, network) than the     *)
(* issued requirements is rejected with a client error and makes no        *)
(* verify call and no settle call.                                         *)
(***************************************************************************)
RequirementMismatch(r) ==
    LET requirements == BuildPaymentRequirements(ResourceUrl) IN
    \/ Get(PayloadOf(r), "scheme") # Get(requirements, "scheme")
    \/ Get(PayloadOf(r), "network") # Get(requirements, "network")

C4_MismatchRejectedBeforeFacilitator ==
    \A r \in Reqs :
        (HasPayload(r) /\ RequirementMismatch(r)) =>
            /\ "verify" \notin CallOps(r)
            /\ "settle" \notin CallOps(r)
            /\ ClientError(r)

(***************************************************************************)
(* C5.  A request whose verification returns isValid = false makes no      *)
(* provider call and no settle call and is answered with 402 and the       *)
(* invalidReason; a later request with a different payload is verified     *)
(* and, its calls answered favourably, gets its 200.                       *)
(***************************************************************************)
C5_InvalidRejectedAndNotBlocking ==
    /\ \A r \in Reqs :
          VerifyInvalid(r) =>
              /\ Done(r)
              /\ CallOps(r) = {"verify"}
              /\ response[r].status = 402
              /\ Get(response[r].body, "reason")
                   = Get(outcomes[r][1].val, "invalidReason")
    /\ \A q, r \in Reqs :
          (/\ q \in doneBefore[r] /\ VerifyInvalid(q)
           /\ HasPayload(r) /\ PaymentHeaderOf(r) # PaymentHeaderOf(q))
          => /\ "verify" \in CallOps(r)
             /\ (Done(r) /\ AllAnswered(r)) => response[r].status = 200

C5_Witness ==
    \E q, r \in Reqs :
        /\ q \in doneBefore[r] /\ VerifyInvalid(q) /\ response[q].status = 402
        /\ HasPayload(r) /\ PaymentHeaderOf(r) # PaymentHeaderOf(q)
        /\ Done(r) /\ AllAnswered(r) /\ response[r].status = 200

(***************************************************************************)
(* C6.  If the provider call throws after a successful verification, the   *)
(* request makes no settle call and is answered with a 5xx.                *)
(***************************************************************************)
C6_ProviderFailureSkipsSettle ==
    \A r \in Reqs :
        (VerifyValid(r) /\ ProviderThrew(r)) =>
            /\ "settle" \notin CallOps(r)
            /\ ServerError(r)

C6_Witness ==
    \E r \in Reqs :
        /\ VerifyValid(r) /\ ProviderThrew(r)
        /\ response[r].status = 500 /\ Len(calls[r]) = 2

(***************************************************************************)
(* C7.  If settle returns success = false, the request is answered with    *)
(* 200 and the provider's result, and the body's payment object and the    *)
(* X-PAYMENT-RESPONSE receipt both report the payment as not settled.      *)
(***************************************************************************)
C7_SettleFailureStillDelivers ==
    \A r \in Reqs :
        SettleUnsuccessful(r) =>
            /\ Done(r)
            /\ response[r].status = 200
            /\ CarriesProviderResult(r)
            /\ Get(Get(response[r].body, "payment"), "settled") = Bool(FALSE)
            /\ Get(ReceiptOf(r), "success") = Bool(FALSE)

C7_Witness ==
    \E r \in Reqs :
        /\ SettleUnsuccessful(r) /\ ProviderSucceeded(r)
        /\ response[r].status = 200
        /\ Get(ReceiptOf(r), "success") = Bool(FALSE)

(***************************************************************************)
(* C8.  Once the provider call has succeeded, the response contains the    *)
(* provider's result, whatever the outcome of the settle call.             *)
(***************************************************************************)
C8_ProviderResultAlwaysReturned ==
    \A r \in Reqs :
        (ProviderSucceeded(r) /\ Done(r)) => CarriesProviderResult(r)

(***************************************************************************)
(* C9.  A request whose payment header cannot be decoded (no well-formed   *)
(* base64, no parseable JSON, or required fields missing) is answered      *)
(* with a 4xx and makes no facilitator call and no provider call.          *)
(***************************************************************************)
MalformedPayload(r) ==
    \/ ~DecodePaymentHeader(PaymentHeaderOf(r)).ok
    \/ Get(PayloadOf(r), "x402Version") = Undefined
    \/ Get(PayloadOf(r), "scheme") = Undefined
    \/ Get(PayloadOf(r), "network") = Undefined
    \/ Get(Get(PayloadOf(r), "payload"), "transaction") = Undefined

C9_MalformedIsClientError ==
    \A r \in Reqs :
        (Started(r) /\ Truthy(PaymentHeaderOf(r)) /\ MalformedPayload(r)) =>
            /\ calls[r] = <<>>
            /\ ClientError(r)

(***************************************************************************)
(* C10.  If the verify call fails with a transport error, the request is   *)
(* answered with a 5xx and makes no provider call and no settle call; a    *)
(* later request with the same payload is verified again and, its calls    *)
(* answered favourably, gets its 200.                                      *)
(***************************************************************************)
C10_VerifyTransportErrorRetryable ==
    /\ \A r \in Reqs :
          VerifyThrew(r) =>
              /\ ServerError(r)
              /\ CallOps(r) = {"verify"}
    /\ \A q, r \in Reqs :
          (/\ q \in doneBefore[r] /\ VerifyThrew(q)
           /\ Started(r) /\ PaymentHeaderOf(r) = PaymentHeaderOf(q))
          => /\ "verify" \in CallOps(r)
             /\ Done(r) => response[r].status # 409
             /\ (Done(r) /\ AllAnswered(r)) => response[r].status = 200

C10_Witness ==
    \E q, r \in Reqs :
        /\ q \in doneBefore[r] /\ VerifyThrew(q) /\ response[q].status = 500
        /\ PaymentHeaderOf(r) = PaymentHeaderOf(q)
        /\ Done(r) /\ AllAnswered(r) /\ response[r].status = 200

(***************************************************************************)
(* C15.  The payment requirements are deterministic: every 402 challenge   *)
(* and every verify and settle call carries the same scheme, network,      *)
(* amount, asset, payTo and resource, the amount being the configured      *)
(* price.                                                                  *)
(***************************************************************************)
Terms(requirements) ==
    [f \in {"scheme", "network", "maxAmountRequired", "asset", "payTo", "resource"}
        |-> Get(requirements, f)]

Challenged(r) ==
    /\ Done(r) /\ response[r].status = 402
    /\ Get(response[r].body, "accepts")[1] = "arr"

\* The requirements objects handed out so far: in challenges, and to the
\* facilitator in verify and settle calls.
IssuedRequirements ==
    {Get(response[r].body, "accepts")[2][1] : r \in {q \in Reqs : Challenged(q)}}
    \cup UNION {{calls[r][i].paymentRequirements :
                    i \in {j \in 1..Len(calls[r]) : calls[r][j].op \in {"verify", "settle"}}}
                : r \in Reqs}

IssuedTerms == {Terms(requirements) : requirements \in IssuedRequirements}

C15_RequirementsDeterministic ==
    /\ Cardinality(IssuedTerms) <= 1
    /\ \A t \in IssuedTerms :
          /\ t["maxAmountRequired"] = Str(PRICE_ATOMIC)
          /\ t["resource"] = Str(ResourceUrl)

C15_Witness ==
    /\ \E r \in Reqs : Challenged(r)
    /\ \E r \in Reqs : "settle" \in CallOps(r)
    /\ Cardinality(IssuedTerms) = 1

(***************************************************************************)
(* C18.  Within one request the external calls are made in the order       *)
(* verify, provider, settle, each at most once; the provider is called     *)
(* only after verify returned isValid = true and settle only after the     *)
(* provider call returned.                                                 *)
(***************************************************************************)
C18_CallOrder ==
    \A r \in Reqs :
        /\ Len(calls[r]) <= 3
        /\ \A i \in 1..Len(calls[r]) :
              calls[r][i].op = <<"verify", "provider", "settle">>[i]
        /\ Len(calls[r]) >= 2 => VerifyValid(r)
        /\ Len(calls[r]) >= 3 => ProviderSucceeded(r)

C18_Witness ==
    \E r \in Reqs :
        /\ Len(calls[r]) = 3 /\ Done(r)
        /\ VerifyValid(r) /\ ProviderSucceeded(r)

(***************************************************************************)
(* C19.  A request is answered with 200 only if, in that request, verify   *)
(* returned isValid = true, the provider call succeeded and the settle     *)
(* call returned a result.                                                 *)
(***************************************************************************)
C19_OkOnlyIfVerified ==
    \A r \in Reqs :
        response[r].status = 200 =>
            /\ AllAnswered(r)
            /\ CarriesProviderResult(r)

C19_Witness ==
    \E r \in Reqs : response[r].status = 200 /\ AllAnswered(r)

(***************************************************************************)
(* C20.  On a 200 response the receipt agrees with the facilitator: the    *)
(* body's payment.settled and the header's success equal the settle        *)
(* result's success, payer is the payer verify returned, network is the    *)
(* configured network, and the body's transaction is the settlement        *)
(* reference if one was returned and null otherwise.                       *)
(***************************************************************************)
C20_ReceiptAgrees ==
    \A r \in Reqs :
        response[r].status = 200 =>
            /\ Ended(r, 3)
            /\ LET v == outcomes[r][1].val
                   s == outcomes[r][3].val
                   payment == Get(response[r].body, "payment")
                   receipt == ReceiptOf(r)
               IN  /\ Get(payment, "settled") = Get(s, "success")
                   /\ Get(receipt, "success") = Get(s, "success")
                   /\ Get(receipt, "payer") = Get(v, "payer")
                   /\ Get(receipt, "network") = Str(NETWORK)
                   /\ Get(payment, "network") = Str(NETWORK)
                   /\ Get(payment, "transaction") =
                        IF Get(s, "transaction") = Undefined THEN Null
                        ELSE Get(s, "transaction")

C20_Witness ==
    \E r \in Reqs :
        /\ response[r].status = 200 /\ Ended(r, 3)
        /\ Get(outcomes[r][3].val, "success") = Bool(TRUE)
        /\ Get(Get(response[r].body, "payment"), "transaction") = Str("sigA")
        /\ Get(ReceiptOf(r), "payer") = Str("payerA")

(***************************************************************************)
(* C17.  A payload presented more than maxTimeoutSeconds after the         *)
(* requirements were issued is rejected: it leads to no provider call and  *)
(* no settle call.                                                         *)
(***************************************************************************)
ChallengesBefore(r) == {q \in doneBefore[r] : Challenged(q)}

PresentedAfterWindow(r) ==
    /\ HasPayload(r)
    /\ ChallengesBefore(r) # {}
    /\ \A q \in ChallengesBefore(r) : arrivedAt[r] > arrivedAt[q] + MaxTimeoutSeconds

C17_ExpiredPayloadRejected ==
    \A r \in Reqs :
        PresentedAfterWindow(r) =>
            /\ "provider" \notin CallOps(r)
            /\ "settle" \notin CallOps(r)

\* The requests of the client that carry a payment header.
ClientPaidRequests == {i \in 1..Len(client.sent) : Truthy(client.sent[i].xPayment)}

\* C11: one run of manualFlow signs at most one transaction and sends at most
\* one request with a payment header; once the paid request is answered with
\* 402 the run is over: one signature, one paid request, no step left to take.
C11_SingleResubmission ==
    /\ Len(client.signed) <= 1
    /\ Cardinality(ClientPaidRequests) <= 1
    /\ client.paidStatus = 402 =>
          /\ client.pc = "done"
          /\ client.result = "returned"
          /\ Len(client.signed) = 1
          /\ Cardinality(ClientPaidRequests) = 1
          /\ ~ ENABLED ClientNext

C11_Witness ==
    /\ client.paidStatus = 402
    /\ client.pc = "done"
    /\ Len(client.signed) = 1

\* C12: when the unpaid request is answered with a status other than 402,
\* manualFlow returns: nothing is built or signed and the unpaid request is
\* the only one sent.
C12_NonChallengeReturned ==
    client.initialStatus \notin {0, 402} =>
        /\ client.pc = "done"
        /\ client.result = "returned"
        /\ client.tx = <<>>
        /\ client.signed = <<>>
        /\ Len(client.sent) = 1
        /\ ~ ENABLED ClientNext

C12_Witness ==
    /\ client.initialStatus = 401
    /\ client.pc = "done"

C14_PayloadMatchesRequirements ==
    \A i \in ClientPaidRequests :
        LET paymentPayload == DecodePaymentHeader(client.sent[i].xPayment).val IN
        /\ Get(paymentPayload, "scheme") = Get(client.req402, "scheme")
        /\ Get(paymentPayload, "network") = Get(client.req402, "network")

\* C16: decoding the header that encodes a valid payload parses, and yields
\* a payload equal to the one encoded.
C16_CodecRoundTrip ==
    codec.stage = "parsed" =>
        /\ codec.decoded.ok
        /\ codec.decoded.val = codec.x

C16_Witness ==
    /\ codec.stage = "parsed"
    /\ codec.x \in ValidPayloads
    /\ Get(codec.x, "payer") = Str("payerA")

\* C22: every transaction the client signs holds exactly one transfer, of the
\* challenge's maxAmountRequired, from the sender's token account to the
\* token account of payTo, as its last instruction; an instruction creating
\* that account precedes it iff the account does not exist on chain.
C22_TransactionShape ==
    \A i \in 1..Len(client.signed) :
        LET tx == client.signed[i]
            mint == Get(client.req402, "asset")[2]
            payToKey == Get(client.req402, "payTo")[2]
            receiverATA == AssociatedTokenAddress(mint, payToKey)
            transfers == {j \in 1..Len(tx) : tx[j].type = "transfer"}
            creations == {j \in 1..Len(tx) : tx[j].type = "createAssociatedTokenAccount"}
        IN  /\ transfers = {Len(tx)}
            /\ tx[Len(tx)].amount = BigInt(Get(client.req402, "maxAmountRequired"))
            /\ tx[Len(tx)].source = AssociatedTokenAddress(mint, KEYPAIR_PUBLIC_KEY)
            /\ tx[Len(tx)].destination = receiverATA
            /\ \A j \in creations : tx[j].destination = receiverATA
            /\ (creations # {}) <=> ~client.receiverOnChain

(***************************************************************************)
(* C21.  Requests with different fingerprints do not affect each other:    *)
(* the calls and the response of each are those of a handler that runs     *)
(* alone with the same headers and the same answers to its calls, and no   *)
(* step of one waits for the other.                                        *)
(***************************************************************************)
\* What a handler running alone has done once it received headers h and its
\* calls ended with outs, in order: the calls made and the response sent.
Alone(h, outs) ==
    LET paymentHeader == ExtractPayment(h)
        paymentRequirements == BuildPaymentRequirements(ResourceUrl)
        verify == Call("verify", paymentHeader, paymentRequirements)
        provider == Call("provider", Undefined, Undefined)
        settle == Call("settle", paymentHeader, paymentRequirements)
        Thrown(out) ==
            CatchResponse(IF out.kind = "throws" THEN out.message
                          ELSE "Cannot read properties of null")
    IN  IF ~Truthy(paymentHeader)
        THEN [calls |-> <<>>, response |-> Create402(paymentRequirements, ResourceUrl)]
        ELSE IF ~x402 /\ ~DecodePaymentHeader(paymentHeader).ok
        THEN [calls |-> <<>>, response |-> CatchResponse("Unexpected token in JSON")]
        ELSE IF Len(outs) = 0
        THEN [calls |-> <<verify>>, response |-> NoResponse]
        ELSE IF outs[1].kind = "throws" \/ ReadThrows(outs[1].val)
        THEN [calls |-> <<verify>>, response |-> Thrown(outs[1])]
        ELSE IF VerificationRejected(outs[1].val)
        THEN [calls |-> <<verify>>, response |-> VerificationFailedResponse(outs[1].val)]
        ELSE IF Len(outs) = 1
        THEN [calls |-> <<verify, provider>>, response |-> NoResponse]
        ELSE IF outs[2].kind = "throws"
        THEN [calls |-> <<verify, provider>>, response |-> Thrown(outs[2])]
        ELSE IF Len(outs) = 2
        THEN [calls |-> <<verify, provider, settle>>, response |-> NoResponse]
        ELSE IF outs[3].kind = "throws" \/ ReadThrows(outs[3].val)
        THEN [calls |-> <<verify, provider, settle>>, response |-> Thrown(outs[3])]
        ELSE [calls |-> <<verify, provider, settle>>,
              response |-> SuccessResponse(outs[2].val, outs[3].val, outs[1].val)]

\* Requests q and r both carry a payload, with different fingerprints.
DifferentFingerprints(q, r) ==
    /\ q # r /\ Started(q) /\ Started(r)
    /\ HasPayload(q) /\ HasPayload(r)
    /\ Fingerprint(q) # Fingerprint(r)

\* No step of request r is held back: the answer to its pending call can be
\* taken at once, whatever the other requests are doing.
NotWaiting(r) ==
    /\ pc[r] = "verify" =>
          ENABLED (\E out \in VerifyOutcomes : VerifyReturns(r, out))
    /\ pc[r] = "provider" =>
          ENABLED (\E out \in ProviderOutcomes : ProviderReturns(r, out))
    /\ pc[r] = "settle" =>
          ENABLED (\E out \in SettleOutcomes : SettleReturns(r, out))

C21_NoInterference ==
    \A q, r \in Reqs :
        DifferentFingerprints(q, r) =>
            /\ calls[r] = Alone(headers[r], outcomes[r]).calls
            /\ response[r] = Alone(headers[r], outcomes[r]).response
            /\ NotWaiting(r)

C21_Witness ==
    \E q, r \in Reqs :
        /\ DifferentFingerprints(q, r) /\ Concurrent(q, r)
        /\ pc[q] = "settle"
        /\ Done(r) /\ response[r].status = 200

(***************************************************************************)
(* C24.  When every external call ends, every request that arrived is      *)
(* eventually answered, with 402, 200 or 500; a request is answered        *)
(* exactly when its handler has returned, and a response once sent is      *)
(* never followed by another.                                              *)
(***************************************************************************)
Answered(r) == response[r] # NoResponse

C24_ExactlyOneResponse ==
    /\ [](\A r \in Reqs :
            /\ Done(r) <=> Answered(r)
            /\ Answered(r) => response[r].status \in {402, 200, 500})
    /\ [][\A r \in Reqs : Answered(r) => response'[r] = response[r]]_vars
    /\ \A r \in Reqs : Started(r) ~> Answered(r)

C24_Witness ==
    /\ \A r \in Reqs : Answered(r)
    /\ \E r \in Reqs : response[r].status = 200
    /\ \E r \in Reqs : response[r].status = 500 /\ Len(outcomes[r]) = 3

(***************************************************************************)
(* C23.  When the caller closes the connection while its request is in     *)
(* flight, the flow goes on: a pending verify or settle call ends and its  *)
(* outcome is taken, and once verify and the provider call have succeeded  *)
(* the settle call is made.                                                *)
(***************************************************************************)
Closed(r) == closedAt[r] # "open"

C23_ClosedConnectionNotAbandoned ==
    /\ \A r \in Reqs : (Closed(r) /\ Len(calls[r]) >= 1) ~> Ended(r, 1)
    /\ \A r \in Reqs : (Closed(r) /\ Len(calls[r]) >= 3) ~> Ended(r, 3)
    /\ \A r \in Reqs :
          (Closed(r) /\ VerifyValid(r)) ~> (ProviderThrew(r) \/ "settle" \in CallOps(r))
    /\ [](\A r \in Reqs :
            (Closed(r) /\ VerifyValid(r) /\ ProviderSucceeded(r)) =>
                "settle" \in CallOps(r))

C23_Witness ==
    \E r \in Reqs :
        /\ closedAt[r] = "verify"
        /\ VerifyValid(r) /\ ProviderSucceeded(r)
        /\ "settle" \in CallOps(r) /\ Ended(r, 3)

====
